---- MODULE Spec2Model ----
(***************************************************************************)
(* A model of conda_forge_tick/lazy_json_backends.py: the two backends     *)
(* (file tree and MongoDB), the sync engine and the LazyJson document.     *)
(***************************************************************************)
EXTENDS Integers, Sequences, FiniteSets, TLC

(***************************************************************************)
(* Bounds of the model.                                                    *)
(***************************************************************************)
\* batch sizes tried for sync_lazy_json_across_backends(batch_size): 1..MaxBatch
MaxBatch == 2
\* entries (over both stores) present when a sync scenario starts
MaxEntries == 2
\* the deepest nesting of transaction and snapshot scopes
MaxDepth == 3
\* the most client sessions started in one behaviour
MaxSessions == 3

(***************************************************************************)
(* Values.  An in-memory document is a dict: a function from a subset of   *)
(* Fields to values; a value is an integer or a Python set of integers.    *)
(* A JSON tree is what rapidjson sees: an integer, or the tagged object    *)
(* {"__set__": true, "elements": [...]} whose elements are a list.         *)
(* A text is a serialised JSON tree together with its layout: "indent1"    *)
(* is the layout json.dumps(indent=1, sort_keys=True) writes, "compact" is *)
(* any other layout of the same tree.                                      *)
(***************************************************************************)
Fields == {"x"}
Ints == {1, 2}

IntVal(n) == [kind |-> "int", elems |-> {n}]
SetVal(S) == [kind |-> "set", elems |-> S]
MemVals == {IntVal(n) : n \in Ints} \cup {SetVal(Ints)}

JInt(n) == [kind |-> "int", elems |-> <<n>>]
JSet(s) == [kind |-> "__set__", elems |-> s]

Range(s) == {s[i] : i \in DOMAIN s}

\* sorted(obj): the ascending list of a set of integers
sorted(S) ==
    CHOOSE s \in [1..Cardinality(S) -> S] :
        /\ Range(s) = S
        /\ \A i, j \in DOMAIN s : i < j => s[i] < s[j]

\* default(obj): the serialisation of a value rapidjson does not know
default(v) == JSet(sorted(v.elems))

\* object_hook(dct): a tagged object becomes a set again
object_hook(j) == SetVal(Range(j.elems))

EncodeVal(v) == IF v.kind = "set" THEN default(v) ELSE JInt(CHOOSE n \in v.elems : TRUE)
DecodeVal(j) == IF j.kind = "__set__" THEN object_hook(j) ELSE IntVal(j.elems[1])

\* json.dumps(obj, sort_keys=True, indent=1) of a tree of plain JSON values
json_dumps(tree) == [tree |-> tree, layout |-> "indent1"]
\* json.loads(s) without object hook: the tree, whatever the layout
json_loads(text) == text.tree

\* dumps(obj) and loads(s) of the module, with default and object_hook
dumps(doc) == json_dumps([f \in DOMAIN doc |-> EncodeVal(doc[f])])
loads(text) == [f \in DOMAIN json_loads(text) |-> DecodeVal(json_loads(text)[f])]

\* hashlib.sha256(s.encode("utf-8")).hexdigest(): injective on the texts
sha256(text) == <<"sha256", text>>

EmptyDoc == [f \in {} |-> IntVal(1)]

\* None for LazyJson._data (a set holding the dict otherwise), for the hash and
\* for the override
None == {}
NoneHash == <<"None">>
NoOverride == <<>>

(***************************************************************************)
(* Configuration and names.                                                *)
(***************************************************************************)
CF_TICK_GRAPH_DATA_HASHMAPS ==
    <<"pr_json", "pr_info", "version_pr_info", "versions", "node_attrs">>

AllCollections == Range(CF_TICK_GRAPH_DATA_HASHMAPS) \cup {"lazy_json"}

LAZY_JSON_BACKENDS == {"file", "mongodb"}

Keys == {"a", "b", "c"}

\* the values CF_TICK_GRAPH_DATA_BACKENDS takes: one backend, or a primary and
\* one secondary
Configs ==
    {<<"file">>, <<"mongodb">>, <<"file", "mongodb">>, <<"mongodb", "file">>}

VARIABLES
    backends,           \* CF_TICK_GRAPH_DATA_BACKENDS
    store,              \* store[b][name]: the keys of hashmap name on backend b
    pc,                 \* position of the sync run
    n_per_batch,        \* batch_size of the run
    hi,                 \* index of the hashmap being synced
    primary_hashes,     \* locals of _sync_hashmap
    backend_hashes,
    all_nodes_to_get,
    batch,
    bi,                 \* index of the secondary in the loops over BACKENDS[1:]
    issued,             \* history: backend calls issued by the current run
    fetched,            \* history: the hmget batches of the current hashmap
    to_fetch0,          \* history: all_nodes_to_get when the fetch loop started
    synced,             \* history: hashmaps whose _sync_hashmap has started
    store0,             \* history: store when the current run started
    last_run,           \* history: how the last run ended
    prev_run,           \* history: how the run before the current one ended
    pushed,             \* history: the hmset the last step of the run issued
    wrote,              \* history: what another writer wrote during the run
    data,               \* LazyJson._data: None, or the dict
    data_hash_at_load,  \* LazyJson._data_hash_at_load
    in_context,         \* LazyJson._in_context
    override_backends,  \* LazyJson._override_backends
    edited,             \* history: a mutation was made in the current edit scope
    purged,             \* history: the value dropped by the last purge
    calls,              \* history: backend calls of the last operation
    last,               \* history: the last operation and its outcome
    _session,           \* MongoDBLazyJsonBackend._session
    _snapshot_session,  \* MongoDBLazyJsonBackend._snapshot_session
    topology,           \* client.topology_description.topology_type_name
    scopes,             \* the context scopes entered and not yet left, innermost last
    sessions,           \* the client sessions started and not yet ended
    n_sessions,         \* the number of client sessions started so far
    hpc,                \* hpc[p]: position of caller p in FileLazyJsonBackend.hdel
    locks,              \* locks[l]: the caller holding lock l
    hres,               \* history: hres[p], what the hdel call of caller p did
    depth               \* the number of `with lzj:` blocks the caller is inside

sync_vars ==
    <<pc, n_per_batch, hi, primary_hashes, backend_hashes, all_nodes_to_get,
      batch, bi, issued, fetched, to_fetch0, synced, store0, last_run, prev_run,
      pushed, wrote>>

doc_vars ==
    <<data, data_hash_at_load, in_context, override_backends, edited, purged,
      calls, last>>

session_vars ==
    <<_session, _snapshot_session, topology, scopes, sessions, n_sessions>>

hdel_vars == <<hpc, locks, hres>>

scope_vars == <<depth>>

vars == <<backends, store, sync_vars, doc_vars, session_vars, hdel_vars, scope_vars>>

\* _session = None and _snapshot_session = None; the sessions are numbered from 1
NoSession == 0

\* no hmset issued, and nothing written by another writer
NoPush == [op |-> "none"]
NoWrite == [op |-> "none"]

\* the callers of FileLazyJsonBackend.hdel and the locks of .executors
Callers == {1, 2}
NoCaller == 0
Locks == {"PRLOCK", "DLOCK", "TRLOCK"}
NoResult == [git |-> "", rm |-> "", raised |-> ""]

\* no scope entered, no session started
SessionInit ==
    /\ _session = NoSession
    /\ _snapshot_session = NoSession
    /\ scopes = <<>>
    /\ sessions = <<>>
    /\ n_sessions = 0

\* the caller is inside no `with lzj:` block
ScopeInit == depth = 0

\* no call of hdel under way
HdelInit ==
    /\ hpc = [p \in Callers |-> "idle"]
    /\ locks = [l \in Locks |-> NoCaller]
    /\ hres = [p \in Callers |-> NoResult]

CF_TICK_GRAPH_DATA_PRIMARY_BACKEND == backends[1]

\* CF_TICK_GRAPH_DATA_BACKENDS[1:], as indices
Secondaries == 2..Len(backends)

(***************************************************************************)
(* The backends.  A hashmap on a backend is a function from the keys it    *)
(* holds.  The file backend holds the text of each file; MongoDB holds the *)
(* parsed value and the sha256 of the text that was written.               *)
(***************************************************************************)
Put(map, key, entry) ==
    [k \in DOMAIN map \cup {key} |-> IF k = key THEN entry ELSE map[k]]

Drop(map, keys) == [k \in DOMAIN map \ keys |-> map[k]]

EmptyMap == [k \in {} |-> 0]

MongoDoc(value) == [value |-> json_loads(value), sha256 |-> sha256(value)]

hexists(st, b, name, key) == key \in DOMAIN st[b][name]

hset(st, b, name, key, value) ==
    IF b = "file"
    THEN [st EXCEPT !["file"][name] = Put(@, key, value)]
    ELSE [st EXCEPT !["mongodb"][name] = Put(@, key, MongoDoc(value))]

hget(st, b, name, key) ==
    IF b = "file"
    THEN st["file"][name][key]
    ELSE json_dumps(st["mongodb"][name][key].value)

hmset(st, b, name, mapping) ==
    IF b = "file"
    THEN [st EXCEPT !["file"][name] =
            [k \in DOMAIN @ \cup DOMAIN mapping |->
                IF k \in DOMAIN mapping THEN mapping[k] ELSE @[k]]]
    ELSE [st EXCEPT !["mongodb"][name] =
            [k \in DOMAIN @ \cup DOMAIN mapping |->
                IF k \in DOMAIN mapping THEN MongoDoc(mapping[k]) ELSE @[k]]]

\* the list hmget returns, zipped with its keys
hmget(st, b, name, keys) == [k \in keys |-> hget(st, b, name, k)]

hdel(st, b, name, keys) == [st EXCEPT ![b][name] = Drop(@, keys)]

hkeys(st, b, name) == DOMAIN st[b][name]

hgetall(st, b, name, hashval) ==
    IF b = "file"
    THEN [k \in hkeys(st, "file", name) |->
            IF hashval THEN sha256(hget(st, "file", name, k))
            ELSE hget(st, "file", name, k)]
    ELSE [k \in DOMAIN st["mongodb"][name] |->
            IF hashval THEN st["mongodb"][name][k].sha256
            ELSE json_dumps(st["mongodb"][name][k].value)]

\* a slip of hsetnx: the key is set whether it exists or not
hsetnx_overwrite(st, b, name, key, value) ==
    <<hset(st, b, name, key, value), ~hexists(st, b, name, key)>>

\* LazyJsonBackend.hsetnx: <<the store afterwards, the value returned>>
hsetnx(st, b, name, key, value) ==
    IF hexists(st, b, name, key)
    THEN <<st, FALSE>>
    ELSE <<hset(st, b, name, key, value), TRUE>>

(***************************************************************************)
(* sync_lazy_json_across_backends                                          *)
(***************************************************************************)
\* the hashmaps in the order of their declaration instead
ordered_collections_declared ==
    <<"pr_json", "pr_info", "version_pr_info", "versions", "node_attrs",
      "lazy_json">>

ordered_collections ==
    <<"lazy_json", "node_attrs", "pr_info", "version_pr_info", "pr_json",
      "versions">>

\* list(all_collections - set(ordered_collections)): some order of that set
rest_of_the_collections ==
    LET rest == AllCollections \ Range(ordered_collections)
    IN  CHOOSE s \in [1..Cardinality(rest) -> rest] : Range(s) = rest

Collections == ordered_collections \o rest_of_the_collections

hashmap == Collections[hi]

\* the keys of primary_hashes that a secondary with these hashes lacks or holds
\* with another hash (the test of lines 368-370 and of lines 399-402)
StaleNodes(hashes) ==
    {node \in DOMAIN primary_hashes :
        \/ node \notin DOMAIN hashes
        \/ hashes[node] /= primary_hashes[node]}

\* sync_lazy_json_across_backends(batch_size): with one backend, nothing happens
SyncStart(batch_size) ==
    /\ pc = "idle"
    /\ n_per_batch' = batch_size
    /\ issued' = {}
    /\ synced' = <<>>
    /\ store0' = store
    /\ prev_run' = last_run
    /\ fetched' = <<>>
    /\ to_fetch0' = {}
    /\ IF Len(backends) > 1
       THEN /\ pc' = "hashmap"
            /\ hi' = 1
            /\ last_run' = "running"
       ELSE /\ pc' = "idle"
            /\ hi' = hi
            /\ last_run' = "complete"
    /\ pushed' = NoPush
    /\ wrote' = NoWrite
    /\ UNCHANGED <<session_vars, hdel_vars, scope_vars, doc_vars,
                   backends, store, primary_hashes, backend_hashes,
                   all_nodes_to_get, batch, bi>>

\* _sync_hashmap, lines 340-348: read the primary's hashes
ReadPrimary ==
    /\ pc = "hashmap"
    /\ primary_hashes' =
         hgetall(store, CF_TICK_GRAPH_DATA_PRIMARY_BACKEND, hashmap, TRUE)
    /\ all_nodes_to_get' = {}
    /\ backend_hashes' = EmptyMap
    /\ bi' = 2
    /\ pc' = "scan"
    /\ issued' = issued \cup {<<1, "hgetall">>}
    /\ synced' = Append(synced, hashmap)
    /\ fetched' = <<>>
    /\ to_fetch0' = {}
    /\ pushed' = NoPush
    /\ UNCHANGED <<wrote, session_vars, hdel_vars, scope_vars, doc_vars,
                   backends, store, n_per_batch, hi, batch, store0, last_run,
                   prev_run>>

\* curr_nodes - primary_nodes for the secondary being scanned
DelNodes(hashes) == DOMAIN hashes \ DOMAIN primary_hashes

\* _sync_hashmap, lines 349-371: one pass of the loop over the secondaries
ScanSecondary ==
    /\ pc = "scan"
    /\ bi \in Secondaries
    /\ LET backend_name == backends[bi]
           hashes == hgetall(store, backend_name, hashmap, TRUE)
           del_nodes == DelNodes(hashes)
       IN  /\ backend_hashes' = Put(backend_hashes, backend_name, hashes)
           /\ store' = IF del_nodes /= {}
                       THEN hdel(store, backend_name, hashmap, del_nodes)
                       ELSE store
           /\ issued' = issued \cup {<<bi, "hgetall">>}
                          \cup (IF del_nodes /= {} THEN {<<bi, "hdel">>} ELSE {})
           /\ all_nodes_to_get' = all_nodes_to_get \cup StaleNodes(hashes)
    /\ bi' = bi + 1
    /\ pc' = IF bi + 1 \in Secondaries THEN "scan" ELSE "fetch"
    /\ to_fetch0' = IF bi + 1 \in Secondaries THEN to_fetch0 ELSE all_nodes_to_get'
    /\ pushed' = NoPush
    /\ UNCHANGED <<wrote, session_vars, hdel_vars, scope_vars, doc_vars,
                   backends, n_per_batch, hi, primary_hashes, batch, fetched,
                   synced, store0, last_run, prev_run>>

\* an off-by-one of line 381: range(min(len(all_nodes_to_get), n_per_batch + 1))
BatchLen_plus1 ==
    IF Cardinality(all_nodes_to_get) < n_per_batch + 1
    THEN Cardinality(all_nodes_to_get) ELSE n_per_batch + 1

\* len(nodes_to_get) of a batch: min(len(all_nodes_to_get), n_per_batch)
BatchLen == IF Cardinality(all_nodes_to_get) < n_per_batch
            THEN Cardinality(all_nodes_to_get) ELSE n_per_batch

\* _sync_hashmap, lines 378-394: pop a batch and multi-get it from the primary
FetchBatch ==
    /\ pc = "fetch"
    /\ all_nodes_to_get /= {}
    /\ \E nodes_to_get \in SUBSET all_nodes_to_get :
        /\ Cardinality(nodes_to_get) = BatchLen
        /\ all_nodes_to_get' = all_nodes_to_get \ nodes_to_get
        /\ batch' = hmget(store, CF_TICK_GRAPH_DATA_PRIMARY_BACKEND, hashmap,
                          nodes_to_get)
        /\ fetched' = Append(fetched, nodes_to_get)
    /\ issued' = issued \cup {<<1, "hmget">>}
    /\ bi' = 2
    /\ pc' = "push"
    /\ pushed' = NoPush
    /\ UNCHANGED <<wrote, session_vars, hdel_vars, scope_vars, doc_vars,
                   backends, store, n_per_batch, hi, primary_hashes,
                   backend_hashes, to_fetch0, synced, store0, last_run, prev_run>>

\* a slip of lines 396-403: the whole batch goes to every secondary
SubBatch_whole(backend_name) == batch

\* _batch: the part of the batch that is stale on backend_name
SubBatch(backend_name) ==
    [node \in DOMAIN batch \cap StaleNodes(backend_hashes[backend_name]) |->
        batch[node]]

\* a slip of line 411: the batch goes to primary_backend
PushStore_primary(backend_name, _batch) ==
    hmset(store, CF_TICK_GRAPH_DATA_PRIMARY_BACKEND, hashmap, _batch)

\* a slip of lines 410-411: the hmset is left out
PushStore_nothing(backend_name, _batch) == store

\* lines 410-411: backend.hmset(hashmap, _batch) on the secondary
PushStore(backend_name, _batch) == hmset(store, backend_name, hashmap, _batch)

\* _sync_hashmap, lines 395-416: one pass of the push loop over the secondaries
PushBatch ==
    /\ pc = "push"
    /\ bi \in Secondaries
    /\ LET backend_name == backends[bi]
           _batch == SubBatch(backend_name)
       IN  /\ store' = IF DOMAIN _batch /= {}
                       THEN PushStore(backend_name, _batch)
                       ELSE store
           /\ issued' = issued \cup
                          (IF DOMAIN _batch /= {} THEN {<<bi, "hmset">>} ELSE {})
    /\ bi' = bi + 1
    /\ pc' = IF bi + 1 \in Secondaries THEN "push" ELSE "fetch"
    /\ pushed' = [op |-> "push", to |-> bi, name |-> hashmap,
                  keys |-> DOMAIN SubBatch(backends[bi]),
                  batch |-> DOMAIN batch,
                  held |-> hgetall(store, backends[bi], hashmap, TRUE),
                  primary |-> hgetall(store, CF_TICK_GRAPH_DATA_PRIMARY_BACKEND,
                                      hashmap, TRUE)]
    /\ UNCHANGED <<wrote, session_vars, hdel_vars, scope_vars, doc_vars,
                   backends, n_per_batch, hi, primary_hashes, backend_hashes,
                   all_nodes_to_get, batch, fetched, to_fetch0, synced, store0,
                   last_run, prev_run>>

\* the fetch loop has ended: _sync_hashmap returns and the loop of lines
\* 439-442 takes the next hashmap, or the run ends
HashmapDone ==
    /\ pc = "fetch"
    /\ all_nodes_to_get = {}
    /\ IF hi < Len(Collections)
       THEN /\ hi' = hi + 1
            /\ pc' = "hashmap"
            /\ last_run' = last_run
       ELSE /\ hi' = hi
            /\ pc' = "idle"
            /\ last_run' = "complete"
    /\ pushed' = NoPush
    /\ UNCHANGED <<wrote, session_vars, hdel_vars, scope_vars, doc_vars,
                   backends, store, n_per_batch, primary_hashes, backend_hashes,
                   all_nodes_to_get, batch, bi, issued, fetched, to_fetch0,
                   synced, store0, prev_run>>

\* no backend call is guarded: an exception of any of them ends the run
SyncAbort ==
    /\ pc /= "idle"
    /\ pc' = "idle"
    /\ last_run' = "aborted"
    /\ pushed' = NoPush
    /\ UNCHANGED <<wrote, session_vars, hdel_vars, scope_vars, doc_vars,
                   backends, store, n_per_batch, hi, primary_hashes,
                   backend_hashes, all_nodes_to_get, batch, bi, issued, fetched,
                   to_fetch0, synced, store0, prev_run>>

\* hdel fails after it has deleted some of del_nodes
AbortInDelete ==
    /\ pc = "scan"
    /\ bi \in Secondaries
    /\ LET backend_name == backends[bi]
           del_nodes == DelNodes(hgetall(store, backend_name, hashmap, TRUE))
       IN  /\ del_nodes /= {}
           /\ \E gone \in SUBSET del_nodes :
                /\ gone /= {}
                /\ store' = hdel(store, backend_name, hashmap, gone)
    /\ issued' = issued \cup {<<bi, "hgetall">>, <<bi, "hdel">>}
    /\ pc' = "idle"
    /\ last_run' = "aborted"
    /\ pushed' = NoPush
    /\ UNCHANGED <<wrote, session_vars, hdel_vars, scope_vars, doc_vars,
                   backends, n_per_batch, hi, primary_hashes, backend_hashes,
                   all_nodes_to_get, batch, bi, fetched, to_fetch0, synced,
                   store0, prev_run>>

\* hmset fails after it has written some of _batch
AbortInPush ==
    /\ pc = "push"
    /\ bi \in Secondaries
    /\ LET backend_name == backends[bi]
           _batch == SubBatch(backend_name)
       IN  \E done \in SUBSET DOMAIN _batch :
                /\ done /= {}
                /\ store' = hmset(store, backend_name, hashmap,
                                  [k \in done |-> _batch[k]])
    /\ issued' = issued \cup {<<bi, "hmset">>}
    /\ pc' = "idle"
    /\ last_run' = "aborted"
    /\ pushed' = NoPush
    /\ UNCHANGED <<wrote, session_vars, hdel_vars, scope_vars, doc_vars,
                   backends, n_per_batch, hi, primary_hashes, backend_hashes,
                   all_nodes_to_get, batch, bi, fetched, to_fetch0, synced,
                   store0, prev_run>>

NextSync ==
    \/ \E batch_size \in 1..MaxBatch : SyncStart(batch_size)
    \/ ReadPrimary
    \/ ScanSecondary
    \/ FetchBatch
    \/ PushBatch
    \/ HashmapDone
    \/ SyncAbort
    \/ AbortInDelete
    \/ AbortInPush

(***************************************************************************)
(* The sync scenarios: the stores a run starts from.  Every entry is a     *)
(* text some writer has stored with hset: a file holds the text itself,    *)
(* MongoDB what hset makes of it.                                          *)
(***************************************************************************)
Text(tree, layout) == [tree |-> tree, layout |-> layout]

Tree1 == [f \in {"x"} |-> JInt(1)]
Tree2 == [f \in {"x"} |-> JInt(2)]

SyncTexts ==
    {Text(Tree1, "indent1"), Text(Tree1, "compact"), Text(Tree2, "indent1")}

\* the hashmaps and keys that hold data in the scenarios with few entries
DataMaps == {"node_attrs", "pr_json"}
DataKeys == {"a", "b"}
\* the hashmap that holds data in the scenarios with many keys
BatchMap == "pr_info"

Cells == LAZY_JSON_BACKENDS \X DataMaps \X DataKeys

\* the store in which exactly the cells of assign hold the text assigned
StoreOf(assign) ==
    [b \in LAZY_JSON_BACKENDS |->
        [name \in AllCollections |->
            [k \in {key \in Keys : <<b, name, key>> \in DOMAIN assign} |->
                IF b = "file" THEN assign[<<b, name, k>>]
                ELSE MongoDoc(assign[<<b, name, k>>])]]]

FewEntries ==
    UNION {[C -> SyncTexts] :
            C \in {D \in SUBSET Cells : Cardinality(D) <= MaxEntries}}

\* the file backend holds the keys KF with one text, MongoDB the keys KM
ManyKeys ==
    {[c \in ({"file"} \X {BatchMap} \X KF) \cup ({"mongodb"} \X {BatchMap} \X KM)
        |-> IF c[1] = "file" THEN tf ELSE tm] :
        KF \in SUBSET Keys, KM \in SUBSET Keys, tf \in SyncTexts, tm \in SyncTexts}

\* a primary and two secondaries on different backends: LAZY_JSON_BACKENDS has
\* two backends, so one of the secondaries is the primary's backend
Configs3 ==
    {c \in [1..3 -> LAZY_JSON_BACKENDS] : c[2] /= c[3]}

\* the state before a run, for these backend lists and these stores
SyncInit(configs, assigns) ==
    /\ backends \in configs
    /\ \E assign \in assigns : store = StoreOf(assign)
    /\ pc = "idle"
    /\ n_per_batch = 1
    /\ hi = 1
    /\ primary_hashes = EmptyMap
    /\ backend_hashes = EmptyMap
    /\ all_nodes_to_get = {}
    /\ batch = EmptyMap
    /\ bi = 2
    /\ issued = {}
    /\ fetched = <<>>
    /\ to_fetch0 = {}
    /\ synced = <<>>
    /\ store0 = store
    /\ last_run = "none"
    /\ prev_run = "none"
    /\ pushed = NoPush
    /\ wrote = NoWrite
    /\ topology = "Single"
    /\ SessionInit
    /\ HdelInit
    /\ ScopeInit
    /\ data = None
    /\ data_hash_at_load = NoneHash
    /\ in_context = FALSE
    /\ override_backends = NoOverride
    /\ edited = FALSE
    /\ purged = None
    /\ calls = <<>>
    /\ last = [op |-> "init", raised |-> ""]

InitSync == SyncInit(Configs, FewEntries \cup ManyKeys)

SpecSync == InitSync /\ [][NextSync]_vars

\* the stores with few entries, all of them in node_attrs
OneMapEntries ==
    {assign \in FewEntries : \A c \in DOMAIN assign : c[2] = "node_attrs"}

\* the value another writer stores: one the primary does not hold for the key
WriterDoc == [f \in {"x"} |-> IntVal(3)]

\* another process leaves an edit scope of document name/key while a run is
\* between a multi-get and the push that follows it: LazyJson._dump, lines
\* 604-618, writes data_str to the file cache and to every backend of
\* CF_TICK_GRAPH_DATA_BACKENDS but the file backend
Writer(name, key) ==
    /\ last_run = "running"
    /\ pc = "push"
    /\ bi = 2
    /\ wrote.op = "none"
    /\ LET data_str == dumps(WriterDoc)
           cached == hset(store, "file", name, key, data_str)
           in_window == hashmap = name /\ key \in DOMAIN batch
       IN  /\ IF hexists(store, CF_TICK_GRAPH_DATA_PRIMARY_BACKEND, name, key)
              THEN loads(hget(store, CF_TICK_GRAPH_DATA_PRIMARY_BACKEND, name, key))
                       /= WriterDoc
              ELSE TRUE
           /\ store' = IF "mongodb" \in Range(backends)
                       THEN hset(cached, "mongodb", name, key, data_str)
                       ELSE cached
           /\ wrote' = [op |-> "write", name |-> name, key |-> key,
                        value |-> data_str,
                        in_window |-> in_window,
                        fetched |-> IF in_window THEN batch[key] ELSE data_str]
    /\ pushed' = NoPush
    /\ UNCHANGED <<session_vars, hdel_vars, scope_vars, doc_vars, backends, pc, n_per_batch, hi,
                   primary_hashes, backend_hashes, all_nodes_to_get, batch, bi,
                   issued, fetched, to_fetch0, synced, store0, last_run, prev_run>>

\* the runs with another writer at work, a primary and one secondary
InitSyncWriter ==
    SyncInit({<<"file", "mongodb">>, <<"mongodb", "file">>}, OneMapEntries)

NextSyncWriter ==
    \/ NextSync
    \/ \E name \in DataMaps, key \in DataKeys : Writer(name, key)

SpecSyncWriter == InitSyncWriter /\ [][NextSyncWriter]_vars

\* the runs with two secondaries
InitSync3 == SyncInit(Configs3, OneMapEntries)

SpecSync3 == InitSync3 /\ [][NextSync]_vars

(***************************************************************************)
(* Properties of the sync engine                                           *)
(***************************************************************************)
Primary == CF_TICK_GRAPH_DATA_PRIMARY_BACKEND

\* the {key: hash} map of hashmap name on backend b
HashMap(b, name) == hgetall(store, b, name, TRUE)

\* every secondary's {key: hash} map is the primary's, for every hashmap
HashesConverged ==
    \A name \in AllCollections : \A i \in Secondaries :
        HashMap(backends[i], name) = HashMap(Primary, name)

\* backend b holds, in hashmap name, the primary's keys with the primary's
\* JSON values
SameValues(b, name) ==
    /\ hkeys(store, b, name) = hkeys(store, Primary, name)
    /\ \A k \in hkeys(store, b, name) :
         json_loads(hget(store, b, name, k)) = json_loads(hget(store, Primary, name, k))

RunComplete == pc = "idle" /\ last_run = "complete"

\* C1 Sync convergence: after one complete run of
\* sync_lazy_json_across_backends, every secondary's {key: hash} map is
\* identical to the primary's, for every hashmap.
C1_SyncConvergence == RunComplete => HashesConverged

\* what does hold after a complete run: every secondary holds the primary's keys
\* with the primary's values, and its {key: hash} map is the primary's when the
\* primary is the file backend
ValuesConverged ==
    RunComplete =>
        /\ \A name \in AllCollections : \A i \in Secondaries :
             SameValues(backends[i], name)
        /\ Primary = "file" => HashesConverged

\* every MongoDB entry carries the hash of the text hget gives back for it, as
\* the entries LazyJson._dump writes do
CanonicalHashes ==
    \A name \in AllCollections : \A k \in DOMAIN store["mongodb"][name] :
        store["mongodb"][name][k].sha256 = sha256(hget(store, "mongodb", name, k))

Ceil(n, b) == (n + b - 1) \div b

\* C6 Batch boundary: with batch size b >= 1 and n keys to fetch, the fetch loop
\* issues ceil(n/b) multi-gets, each of at most b keys and all of b keys except
\* possibly the last, every key to fetch is in exactly one of them, and the loop
\* ends with nothing left to fetch.
C6_BatchBoundary ==
    pc \in {"fetch", "push"} =>
        LET n == Cardinality(to_fetch0)
            b == n_per_batch
        IN  /\ \A i \in DOMAIN fetched :
                 /\ fetched[i] /= {}
                 /\ Cardinality(fetched[i]) <= b
                 /\ (i < Len(fetched) \/ all_nodes_to_get /= {})
                        => Cardinality(fetched[i]) = b
            /\ \A i, j \in DOMAIN fetched : i /= j => fetched[i] \cap fetched[j] = {}
            /\ \A i \in DOMAIN fetched : fetched[i] \cap all_nodes_to_get = {}
            /\ UNION Range(fetched) \cup all_nodes_to_get = to_fetch0
            /\ Len(fetched) <= Ceil(n, b)
            /\ (pc = "fetch" /\ all_nodes_to_get = {}) => Len(fetched) = Ceil(n, b)

\* three keys fetched with batch size 2: a batch of two, then a batch of one
C6_Witness ==
    /\ pc = "fetch"
    /\ all_nodes_to_get = {}
    /\ n_per_batch = 2
    /\ Cardinality(to_fetch0) = 3
    /\ Len(fetched) = 2
    /\ Cardinality(fetched[1]) = 2
    /\ Cardinality(fetched[2]) = 1

\* C7 Sync is idempotent: a complete run started right after a completed run
\* issues no delete, no multi-get and no write, and changes no backend.
C7_SyncIdempotent ==
    prev_run = "complete" =>
        /\ \A c \in issued : c[2] \notin {"hdel", "hmget", "hmset"}
        /\ store = store0

\* C8 Interrupted sync recovery: a complete run after an aborted one leaves
\* every secondary's {key: hash} map identical to the primary's.
C8_RecoveryAfterAbort ==
    (RunComplete /\ prev_run = "aborted") => HashesConverged

\* with the file backend as the primary, or with canonical hashes on a MongoDB
\* primary, a complete run does converge, a second one does nothing and a run
\* after an aborted one recovers
ConvergesWhenCanonical ==
    (Primary = "mongodb" => CanonicalHashes) =>
        /\ C1_SyncConvergence
        /\ C7_SyncIdempotent
        /\ C8_RecoveryAfterAbort

C19_LostUpdate ==
    (RunComplete /\ wrote.op = "write" /\ wrote.in_window) =>
        LET older == json_loads(wrote.fetched)
            newer == json_loads(wrote.value)
        IN  /\ json_loads(hget(store, Primary, wrote.name, wrote.key)) = newer
            /\ json_loads(hget(store, backends[2], wrote.name, wrote.key)) = older
            /\ older /= newer

\* a complete run after which the secondary holds an older value than the primary
C19_Witness ==
    /\ RunComplete
    /\ wrote.op = "write"
    /\ wrote.in_window
    /\ ~SameValues(backends[2], wrote.name)
    /\ json_loads(hget(store, Primary, wrote.name, wrote.key))
           = json_loads(wrote.value)

\* with no writer at work in its window, the run leaves the values converged
ConvergesWithoutWriter ==
    (RunComplete /\ wrote.op = "none") =>
        \A name \in AllCollections : SameValues(backends[2], name)

\* C9 Sync is one-directional: a run issues no set, multi-set or delete on the
\* primary and leaves its contents as they were, and with a single backend it
\* issues no backend call at all.
C9_OneDirectional ==
    /\ \A c \in issued : c[1] = 1 => c[2] \in {"hgetall", "hmget"}
    /\ store[Primary] = store0[Primary]
    /\ Len(backends) = 1 => (issued = {} /\ store = store0 /\ pc = "idle")

\* a complete run that deleted from and wrote to the secondary
C9_Witness ==
    /\ RunComplete
    /\ <<2, "hdel">> \in issued
    /\ <<2, "hmset">> \in issued
    /\ store /= store0

\* the order the spec gives: catch-all, node attributes, PR info, versions
SyncOrder ==
    <<"lazy_json", "node_attrs", "pr_info", "version_pr_info", "pr_json",
      "versions">>

IsPrefix(s, t) == Len(s) <= Len(t) /\ \A i \in DOMAIN s : s[i] = t[i]

\* C10 Sync ordering: the hashmaps are synced one after the other, each once, in
\* the order lazy_json, node_attrs, pr_info, version_pr_info, pr_json, versions;
\* while a hashmap is being synced every earlier hashmap holds, on every
\* secondary, the primary's keys and values; a complete run has synced them all.
C10_SyncOrdering ==
    /\ IsPrefix(synced, SyncOrder)
    /\ Range(SyncOrder) = AllCollections
    /\ last_run = "running" =>
         /\ Len(synced) \in {hi - 1, hi}
         /\ pc /= "hashmap" => (Len(synced) = hi /\ hashmap = SyncOrder[hi])
         /\ \A j \in 1..(Len(synced) - 1) : \A i \in Secondaries :
              SameValues(backends[i], SyncOrder[j])
    /\ (RunComplete /\ Len(backends) > 1) => synced = SyncOrder

\* pr_json is being written on the secondary after node_attrs was changed there
C10_Witness ==
    /\ pc = "push"
    /\ hashmap = "pr_json"
    /\ DOMAIN SubBatch(backends[2]) /= {}
    /\ store[backends[2]]["node_attrs"] /= store0[backends[2]]["node_attrs"]

(***************************************************************************)
(* LazyJson: one document, LazyJson("node_attrs/a.json")                   *)
(***************************************************************************)
\* self.hashmap and self.node, as __init__ splits file_name
self_hashmap == "node_attrs"
self_node == "a"

TheDoc(d) == CHOOSE doc \in d : TRUE

\* the backend calls of an operation: <<the object called, its backend, the call>>
CacheCall(op) == <<"file_backend", "file", op>>
BackendCall(b, op) == <<"backend", b, op>>

\* a slip of _load: the cache is not consulted
_load_nocache(st, d, h, ob) ==
    IF d /= None
    THEN [store |-> st, data |-> d, hash |-> h, calls |-> <<>>]
    ELSE LET primary_backend_name ==
                 IF ob /= NoOverride THEN ob[1]
                 ELSE CF_TICK_GRAPH_DATA_PRIMARY_BACKEND
             r == hsetnx(st, primary_backend_name, self_hashmap, self_node,
                         dumps(EmptyDoc))
             data_str == hget(r[1], primary_backend_name, self_hashmap, self_node)
         IN  [store |-> IF primary_backend_name /= "file"
                        THEN hset(r[1], "file", self_hashmap, self_node, data_str)
                        ELSE r[1],
              data |-> {loads(data_str)},
              hash |-> sha256(data_str),
              calls |-> <<BackendCall(primary_backend_name, "hsetnx"),
                          BackendCall(primary_backend_name, "hget")>>]

\* a slip of lines 592-594: the baseline is the hash of the value serialised
\* again, not of the string that was loaded
_load_rehashed(st, d, h, ob) ==
    LET L == _load_nocache(st, d, h, ob)
        cached == hexists(st, "file", self_hashmap, self_node)
        data_str == hget(st, "file", self_hashmap, self_node)
    IN  IF d /= None
        THEN [store |-> st, data |-> d, hash |-> h, calls |-> <<>>]
        ELSE IF cached
        THEN [store |-> st,
              data |-> {loads(data_str)},
              hash |-> sha256(dumps(loads(data_str))),
              calls |-> <<CacheCall("hexists"), CacheCall("hget")>>]
        ELSE [store |-> L.store, data |-> L.data,
              hash |-> sha256(dumps(TheDoc(L.data))),
              calls |-> <<CacheCall("hexists")>> \o L.calls
                        \o (IF L.calls[1][2] /= "file"
                            THEN <<CacheCall("hset")>> ELSE <<>>)]

\* LazyJson._load: the store, _data and _data_hash_at_load afterwards
_load(st, d, h, ob) ==
    IF d /= None
    THEN [store |-> st, data |-> d, hash |-> h, calls |-> <<>>]
    ELSE IF hexists(st, "file", self_hashmap, self_node)
    THEN LET data_str == hget(st, "file", self_hashmap, self_node)
         IN  [store |-> st,
              data |-> {loads(data_str)},
              hash |-> sha256(data_str),
              calls |-> <<CacheCall("hexists"), CacheCall("hget")>>]
    ELSE LET primary_backend_name ==
                 IF ob /= NoOverride THEN ob[1]
                 ELSE CF_TICK_GRAPH_DATA_PRIMARY_BACKEND
             r == hsetnx(st, primary_backend_name, self_hashmap, self_node,
                         dumps(EmptyDoc))
             data_str == hget(r[1], primary_backend_name, self_hashmap, self_node)
         IN  [store |-> IF primary_backend_name /= "file"
                        THEN hset(r[1], "file", self_hashmap, self_node, data_str)
                        ELSE r[1],
              data |-> {loads(data_str)},
              hash |-> sha256(data_str),
              calls |-> <<CacheCall("hexists"),
                          BackendCall(primary_backend_name, "hsetnx"),
                          BackendCall(primary_backend_name, "hget")>>
                        \o (IF primary_backend_name /= "file"
                            THEN <<CacheCall("hset")>> ELSE <<>>)]

\* the loop of lines 614-618 from backend_names[i] on: every backend but "file"
\* gets the text
RECURSIVE SyncToBackends(_, _, _, _)
SyncToBackends(st, backend_names, i, data_str) ==
    IF i > Len(backend_names)
    THEN [store |-> st, calls |-> <<>>]
    ELSE IF backend_names[i] = "file"
    THEN SyncToBackends(st, backend_names, i + 1, data_str)
    ELSE LET rest == SyncToBackends(
                        hset(st, backend_names[i], self_hashmap, self_node, data_str),
                        backend_names, i + 1, data_str)
         IN  [store |-> rest.store,
              calls |-> <<BackendCall(backend_names[i], "hset")>> \o rest.calls]

\* a slip of _dump: the hash is not compared, every exit writes
_dump_always(st, d, h, ob, purge, force) ==
    LET L == _load(st, d, h, ob)
        data_str == dumps(TheDoc(L.data))
        backend_names == IF ob /= NoOverride THEN ob ELSE backends
        W == SyncToBackends(hset(L.store, "file", self_hashmap, self_node, data_str),
                            backend_names, 1, data_str)
    IN  [store |-> W.store,
         data |-> IF purge THEN None ELSE L.data,
         hash |-> IF purge THEN NoneHash ELSE sha256(data_str),
         calls |-> L.calls \o <<CacheCall("hset")>> \o W.calls]

\* a slip of line 601: force is not looked at
_dump_unforced(st, d, h, ob, purge, force) ==
    LET L == _load(st, d, h, ob)
        data_str == dumps(TheDoc(L.data))
        curr_hash == sha256(data_str)
        backend_names == IF ob /= NoOverride THEN ob ELSE backends
        W == SyncToBackends(hset(L.store, "file", self_hashmap, self_node, data_str),
                            backend_names, 1, data_str)
    IN  IF curr_hash /= L.hash
        THEN [store |-> W.store,
              data |-> IF purge THEN None ELSE L.data,
              hash |-> IF purge THEN NoneHash ELSE curr_hash,
              calls |-> L.calls \o <<CacheCall("hset")>> \o W.calls]
        ELSE [store |-> L.store,
              data |-> IF purge THEN None ELSE L.data,
              hash |-> IF purge THEN NoneHash ELSE L.hash,
              calls |-> L.calls]

\* LazyJson._dump(purge, force)
_dump(st, d, h, ob, purge, force) ==
    LET L == _load(st, d, h, ob)
        data_str == dumps(TheDoc(L.data))
        curr_hash == sha256(data_str)
        backend_names == IF ob /= NoOverride THEN ob ELSE backends
        W == SyncToBackends(hset(L.store, "file", self_hashmap, self_node, data_str),
                            backend_names, 1, data_str)
    IN  IF curr_hash /= L.hash \/ force
        THEN [store |-> W.store,
              data |-> IF purge THEN None ELSE L.data,
              hash |-> IF purge THEN NoneHash ELSE curr_hash,
              calls |-> L.calls \o <<CacheCall("hset")>> \o W.calls]
        ELSE [store |-> L.store,
              data |-> IF purge THEN None ELSE L.data,
              hash |-> IF purge THEN NoneHash ELSE L.hash,
              calls |-> L.calls]

\* LazyJson.__enter__
Enter ==
    /\ in_context' = TRUE
    /\ edited' = FALSE
    /\ calls' = <<>>
    /\ last' = [op |-> "enter", raised |-> ""]
    /\ UNCHANGED <<session_vars, hdel_vars, scope_vars, sync_vars, backends, store, data, data_hash_at_load,
                   override_backends, purged>>

\* LazyJson.__exit__: _dump(purge=True), then the scope is left
Exit ==
    LET L == _load(store, data, data_hash_at_load, override_backends)
        R == _dump(store, data, data_hash_at_load, override_backends, TRUE, FALSE)
    IN  /\ store' = R.store
        /\ data' = R.data
        /\ data_hash_at_load' = R.hash
        /\ calls' = R.calls
        /\ in_context' = FALSE
        /\ edited' = FALSE
        /\ purged' = L.data
        /\ last' = [op |-> "exit", raised |-> "",
                    was_loaded |-> data /= None,
                    edited |-> edited,
                    baseline |-> L.hash,
                    curr_hash |-> sha256(dumps(TheDoc(L.data))),
                    backend_names |-> IF override_backends /= NoOverride
                                      THEN override_backends ELSE backends]
        /\ UNCHANGED <<session_vars, hdel_vars, scope_vars, sync_vars, backends, override_backends>>

\* a mutator called outside an edit scope: assert self._in_context fails
AssertionFails(op) ==
    /\ ~in_context
    /\ last' = [op |-> op, raised |-> "AssertionError"]
    /\ calls' = <<>>
    /\ UNCHANGED <<session_vars, hdel_vars, scope_vars, sync_vars, backends, store, data, data_hash_at_load,
                   in_context, override_backends, edited, purged>>

\* assert self._in_context: the condition a mutator goes on under
assert_in_context == in_context

\* the body of a mutator after its assert: _load, then the dict is changed to doc
Mutate(op, L, doc) ==
    /\ store' = L.store
    /\ data' = {doc}
    /\ data_hash_at_load' = L.hash
    /\ calls' = L.calls
    /\ edited' = (in_context /\ (edited \/ doc /= TheDoc(L.data)))
    /\ purged' = None
    /\ last' = [op |-> op, raised |-> ""]
    /\ UNCHANGED <<session_vars, hdel_vars, scope_vars, sync_vars, backends, in_context, override_backends>>

\* a mutator that fails after _load with a KeyError
KeyError(op, L) ==
    /\ store' = L.store
    /\ data' = L.data
    /\ data_hash_at_load' = L.hash
    /\ calls' = L.calls
    /\ purged' = None
    /\ last' = [op |-> op, raised |-> "KeyError"]
    /\ UNCHANGED <<session_vars, hdel_vars, scope_vars, sync_vars, backends, in_context, override_backends, edited>>

\* LazyJson.__setitem__(key, value)
SetItem(key, value) ==
    IF ~assert_in_context
    THEN AssertionFails("__setitem__")
    ELSE LET L == _load(store, data, data_hash_at_load, override_backends)
         IN  Mutate("__setitem__", L, Put(TheDoc(L.data), key, value))

\* LazyJson.__delitem__(v)
DelItem(v) ==
    IF ~assert_in_context
    THEN AssertionFails("__delitem__")
    ELSE LET L == _load(store, data, data_hash_at_load, override_backends)
         IN  IF v \in DOMAIN TheDoc(L.data)
             THEN Mutate("__delitem__", L, Drop(TheDoc(L.data), {v}))
             ELSE KeyError("__delitem__", L)

\* LazyJson.clear()
Clear ==
    IF ~assert_in_context
    THEN AssertionFails("clear")
    ELSE LET L == _load(store, data, data_hash_at_load, override_backends)
         IN  Mutate("clear", L, EmptyDoc)

\* lzj.data[key] = value: the data property loads and returns self._data itself,
\* the dict the document holds, and the caller sets an item of it; no assert is
\* on this path
DataSetItem(key, value) ==
    LET L == _load(store, data, data_hash_at_load, override_backends)
    IN  Mutate("data", L, Put(TheDoc(L.data), key, value))

\* LazyJson.data, __getitem__, __len__, __iter__: a read, which loads
Read ==
    LET L == _load(store, data, data_hash_at_load, override_backends)
    IN  /\ store' = L.store
        /\ data' = L.data
        /\ data_hash_at_load' = L.hash
        /\ calls' = L.calls
        /\ purged' = None
        /\ last' = [op |-> "read", raised |-> "",
                    was_purged |-> (data = None /\ purged /= None),
                    purged |-> purged,
                    cache_held |-> hexists(store, "file", self_hashmap, self_node)]
        /\ UNCHANGED <<session_vars, hdel_vars, scope_vars, sync_vars, backends, in_context, override_backends, edited>>

\* LazyJson.flush_to_backends
FlushToBackends ==
    LET purge == (data = None)
        L == _load(store, data, data_hash_at_load, override_backends)
        R == _dump(L.store, L.data, L.hash, override_backends, purge, TRUE)
    IN  /\ store' = R.store
        /\ data' = R.data
        /\ data_hash_at_load' = R.hash
        /\ calls' = L.calls \o R.calls
        /\ purged' = IF purge THEN L.data ELSE None
        /\ last' = [op |-> "flush_to_backends", raised |-> "",
                    was_loaded |-> data /= None,
                    unchanged |-> IF data = None THEN FALSE
                                  ELSE sha256(dumps(TheDoc(data)))
                                           = data_hash_at_load]
        /\ UNCHANGED <<session_vars, hdel_vars, scope_vars, sync_vars, backends, in_context, override_backends, edited>>

\* the backend lists a caller overrides with
Overrides == {<<"file">>, <<"mongodb">>, <<"mongodb", "file">>}

\* with lzj.override_backends(new_backends): entry
OverrideEnter(new_backends) ==
    /\ override_backends' = new_backends
    /\ calls' = <<>>
    /\ last' = [op |-> "override_backends", raised |-> ""]
    /\ UNCHANGED <<session_vars, hdel_vars, scope_vars, sync_vars, backends, store, data, data_hash_at_load,
                   in_context, edited, purged>>

\* with lzj.override_backends(new_backends): exit
OverrideExit ==
    /\ override_backends /= NoOverride
    /\ override_backends' = NoOverride
    /\ calls' = <<>>
    /\ last' = [op |-> "override_backends_exit", raised |-> ""]
    /\ UNCHANGED <<session_vars, hdel_vars, scope_vars, sync_vars, backends, store, data, data_hash_at_load,
                   in_context, edited, purged>>

\* a call of backend.hsetnx(name, key, value) by the application
Hsetnx(b, name, key, value) ==
    LET r == hsetnx(store, b, name, key, value)
    IN  /\ store' = r[1]
        /\ calls' = <<BackendCall(b, "hsetnx")>>
        /\ last' = [op |-> "hsetnx", raised |-> "",
                    backend |-> b, name |-> name, key |-> key, value |-> value,
                    existed |-> key \in DOMAIN store[b][name],
                    before |-> store[b][name],
                    ret |-> r[2],
                    again |-> /\ last.op = "hsetnx"
                              /\ last.backend = b
                              /\ last.name = name
                              /\ last.key = key
                              /\ last.ret,
                    first_value |-> IF last.op = "hsetnx" THEN last.value
                                    ELSE value]
        /\ UNCHANGED <<session_vars, hdel_vars, scope_vars, sync_vars, backends, data, data_hash_at_load, in_context,
                       override_backends, edited, purged>>

\* the texts the stores hold when the document is constructed
TreeSet21 == [f \in {"x"} |-> JSet(<<2, 1>>)]

DocTexts ==
    {Text(Tree1, "indent1"), Text(Tree1, "compact"), Text(TreeSet21, "indent1")}

\* the texts the application passes to hsetnx
ApiTexts == {dumps(EmptyDoc), Text(Tree2, "compact")}

NoEntries == [b \in LAZY_JSON_BACKENDS |-> [name \in AllCollections |-> EmptyMap]]

\* the state after LazyJson.__init__: with the file backend as the primary the
\* key is created there
Init ==
    /\ backends \in Configs
    /\ \E assign \in UNION {[C -> DocTexts] :
                        C \in SUBSET (LAZY_JSON_BACKENDS \X {self_hashmap} \X {self_node})} :
         store = IF backends[1] = "file"
                 THEN hsetnx(StoreOf(assign), "file", self_hashmap, self_node,
                             dumps(EmptyDoc))[1]
                 ELSE StoreOf(assign)
    /\ pc = "idle"
    /\ n_per_batch = 1
    /\ hi = 1
    /\ primary_hashes = EmptyMap
    /\ backend_hashes = EmptyMap
    /\ all_nodes_to_get = {}
    /\ batch = EmptyMap
    /\ bi = 2
    /\ issued = {}
    /\ fetched = <<>>
    /\ to_fetch0 = {}
    /\ synced = <<>>
    /\ store0 = NoEntries
    /\ last_run = "none"
    /\ prev_run = "none"
    /\ pushed = NoPush
    /\ wrote = NoWrite
    /\ topology = "Single"
    /\ SessionInit
    /\ HdelInit
    /\ ScopeInit
    /\ data = None
    /\ data_hash_at_load = NoneHash
    /\ in_context = FALSE
    /\ override_backends = NoOverride
    /\ edited = FALSE
    /\ purged = None
    /\ calls = <<>>
    /\ last = [op |-> "__init__", raised |-> ""]

Next ==
    \/ Enter
    \/ Exit
    \/ \E key \in Fields, value \in MemVals : SetItem(key, value)
    \/ \E v \in Fields : DelItem(v)
    \/ Clear
    \/ \E key \in Fields, value \in MemVals : DataSetItem(key, value)
    \/ Read
    \/ FlushToBackends
    \/ \E new_backends \in Overrides : OverrideEnter(new_backends)
    \/ OverrideExit

Spec == Init /\ [][Next]_vars

(***************************************************************************)
(* The backend interface called directly: hsetnx, hset and hdel on the     *)
(* keys of one hashmap, from empty stores.                                 *)
(***************************************************************************)
\* a call of backend.hset(name, key, value) by the application
Hset(b, name, key, value) ==
    /\ store' = hset(store, b, name, key, value)
    /\ calls' = <<BackendCall(b, "hset")>>
    /\ last' = [op |-> "hset", raised |-> "", backend |-> b, name |-> name,
                key |-> key, value |-> value]
    /\ UNCHANGED <<session_vars, hdel_vars, scope_vars, sync_vars, backends, data, data_hash_at_load, in_context,
                   override_backends, edited, purged>>

\* a call of backend.hdel(name, [key]) that succeeds
Hdel(b, name, key) ==
    /\ store' = hdel(store, b, name, {key})
    /\ calls' = <<BackendCall(b, "hdel")>>
    /\ last' = [op |-> "hdel", raised |-> "", backend |-> b, name |-> name,
                key |-> key]
    /\ UNCHANGED <<session_vars, hdel_vars, scope_vars, sync_vars, backends, data, data_hash_at_load, in_context,
                   override_backends, edited, purged>>

InitBackend ==
    /\ backends \in Configs
    /\ store = NoEntries
    /\ pc = "idle"
    /\ n_per_batch = 1
    /\ hi = 1
    /\ primary_hashes = EmptyMap
    /\ backend_hashes = EmptyMap
    /\ all_nodes_to_get = {}
    /\ batch = EmptyMap
    /\ bi = 2
    /\ issued = {}
    /\ fetched = <<>>
    /\ to_fetch0 = {}
    /\ synced = <<>>
    /\ store0 = NoEntries
    /\ last_run = "none"
    /\ prev_run = "none"
    /\ pushed = NoPush
    /\ wrote = NoWrite
    /\ topology = "Single"
    /\ SessionInit
    /\ HdelInit
    /\ ScopeInit
    /\ data = None
    /\ data_hash_at_load = NoneHash
    /\ in_context = FALSE
    /\ override_backends = NoOverride
    /\ edited = FALSE
    /\ purged = None
    /\ calls = <<>>
    /\ last = [op |-> "__init__", raised |-> ""]

NextBackend ==
    \/ \E b \in LAZY_JSON_BACKENDS, key \in {"a", "b"}, value \in ApiTexts :
         Hsetnx(b, self_hashmap, key, value)
    \/ \E b \in LAZY_JSON_BACKENDS, key \in {"a", "b"}, value \in ApiTexts :
         Hset(b, self_hashmap, key, value)
    \/ \E b \in LAZY_JSON_BACKENDS, key \in {"a", "b"} :
         Hdel(b, self_hashmap, key)

SpecBackend == InitBackend /\ [][NextBackend]_vars

(***************************************************************************)
(* MongoDBLazyJsonBackend.transaction_context and snapshot_context: the    *)
(* scopes one thread enters and leaves, innermost first, and the calls it  *)
(* makes on the backend inside and outside them.  A write with a session   *)
(* in a transaction is pending until the transaction commits; a write with *)
(* session=None is stored at once.                                         *)
(***************************************************************************)
Topologies == {"Single", "ReplicaSetWithPrimary"}

\* the scope entered now: the session it started itself (NoSession when it
\* started none), the MongoDB hashmap at entry, and, as history, the writes
\* made while it is open and whether a transaction scope was entered inside it
Frame(kind, session) ==
    [kind |-> kind, session |-> session,
     entry |-> store["mongodb"][self_hashmap],
     writes |-> EmptyMap, nested |-> FALSE]

OpenSessions(kind) == {id \in DOMAIN sessions : sessions[id].kind = kind}

\* the scopes with the fact recorded that a scope of this kind is entered inside
Around(kind) ==
    [i \in DOMAIN scopes |->
        [scopes[i] EXCEPT !.nested = @ \/ kind = "transaction"]]

\* the session the outermost open transaction scope started
OuterSession ==
    LET txn == {i \in DOMAIN scopes : scopes[i].kind = "transaction"}
    IN  IF txn = {} THEN NoSession
        ELSE scopes[CHOOSE i \in txn : \A j \in txn : i <= j].session

\* lines 206 and 221: the test that decides whether a session is started
SessionUnset(handle) == handle = NoSession

\* with backend.transaction_context(): entry, lines 205-211 and 213-214
TransactionEnter ==
    /\ Len(scopes) < MaxDepth
    /\ IF SessionUnset(_session)
       THEN /\ n_sessions < MaxSessions
            /\ n_sessions' = n_sessions + 1
            /\ sessions' = Put(sessions, n_sessions + 1,
                               [kind |-> "transaction", pending |-> EmptyMap])
            /\ _session' = n_sessions + 1
            /\ scopes' = Append(Around("transaction"),
                                Frame("transaction", n_sessions + 1))
       ELSE /\ scopes' = Append(Around("transaction"),
                                Frame("transaction", NoSession))
            /\ UNCHANGED <<_session, sessions, n_sessions>>
    /\ last' = [op |-> "transaction_context", raised |-> "",
                open_before |-> OpenSessions("transaction"),
                handle |-> _session']
    /\ calls' = <<>>
    /\ UNCHANGED <<hdel_vars, scope_vars, sync_vars, backends, store, data, data_hash_at_load,
                   in_context, override_backends, edited, purged,
                   _snapshot_session, topology>>

\* the pending writes of a transaction stored, as hset stores them
Commit(pending) ==
    [store EXCEPT !["mongodb"][self_hashmap] =
        [k \in DOMAIN @ \cup DOMAIN pending |->
            IF k \in DOMAIN pending THEN MongoDoc(pending[k]) ELSE @[k]]]

\* lines 215-216 and 232-233: the handle after the finally clause
Cleared(handle, how) == NoSession

\* with backend.transaction_context(): exit, normal or by an exception that
\* escapes the scope, lines 212 and 215-216; a scope that started the session
\* commits or aborts its transaction and ends the session
TransactionExit(how) ==
    /\ scopes /= <<>>
    /\ LET f == scopes[Len(scopes)]
       IN  /\ f.kind = "transaction"
           /\ IF f.session /= NoSession
              THEN /\ store' = IF how = "normal"
                               THEN Commit(sessions[f.session].pending)
                               ELSE store
                   /\ sessions' = Drop(sessions, {f.session})
              ELSE UNCHANGED <<store, sessions>>
           /\ last' = [op |-> "transaction_exit", raised |-> "", how |-> how,
                       session |-> f.session, entry |-> f.entry,
                       writes |-> f.writes, nested |-> f.nested]
    /\ _session' = Cleared(_session, how)
    /\ scopes' = SubSeq(scopes, 1, Len(scopes) - 1)
    /\ calls' = <<>>
    /\ UNCHANGED <<hdel_vars, scope_vars, sync_vars, backends, data, data_hash_at_load,
                   in_context, override_backends, edited, purged,
                   _snapshot_session, topology, n_sessions>>

\* with backend.snapshot_context(): entry, lines 220-231; a standalone
\* deployment ("Single" in the topology type name) gets no session
SnapshotEnter ==
    /\ Len(scopes) < MaxDepth
    /\ IF SessionUnset(_snapshot_session) /\ topology /= "Single"
       THEN /\ n_sessions < MaxSessions
            /\ n_sessions' = n_sessions + 1
            /\ sessions' = Put(sessions, n_sessions + 1,
                               [kind |-> "snapshot", pending |-> EmptyMap])
            /\ _snapshot_session' = n_sessions + 1
            /\ scopes' = Append(Around("snapshot"),
                                Frame("snapshot", n_sessions + 1))
       ELSE /\ scopes' = Append(Around("snapshot"), Frame("snapshot", NoSession))
            /\ UNCHANGED <<_snapshot_session, sessions, n_sessions>>
    /\ last' = [op |-> "snapshot_context", raised |-> "",
                open_before |-> OpenSessions("snapshot"),
                handle |-> _snapshot_session']
    /\ calls' = <<>>
    /\ UNCHANGED <<hdel_vars, scope_vars, sync_vars, backends, store, data, data_hash_at_load,
                   in_context, override_backends, edited, purged,
                   _session, topology>>

\* with backend.snapshot_context(): exit, normal or by an exception, lines 227
\* and 232-233; a scope that started the session ends it
SnapshotExit(how) ==
    /\ scopes /= <<>>
    /\ LET f == scopes[Len(scopes)]
       IN  /\ f.kind = "snapshot"
           /\ sessions' = IF f.session /= NoSession
                          THEN Drop(sessions, {f.session}) ELSE sessions
           /\ last' = [op |-> "snapshot_exit", raised |-> "", how |-> how,
                       session |-> f.session]
    /\ _snapshot_session' = Cleared(_snapshot_session, how)
    /\ scopes' = SubSeq(scopes, 1, Len(scopes) - 1)
    /\ calls' = <<>>
    /\ UNCHANGED <<hdel_vars, scope_vars, sync_vars, backends, store, data, data_hash_at_load,
                   in_context, override_backends, edited, purged,
                   _session, topology, n_sessions>>

\* MongoDBLazyJsonBackend.hset(name, key, value), lines 258-272, with
\* session=self.__class__._session
MongoHset(key, value) ==
    /\ IF _session = NoSession
       THEN /\ store' = hset(store, "mongodb", self_hashmap, key, value)
            /\ sessions' = sessions
       ELSE /\ _session \in DOMAIN sessions
            /\ sessions' = [sessions EXCEPT ![_session].pending = Put(@, key, value)]
            /\ store' = store
    /\ scopes' = [i \in DOMAIN scopes |->
                    [scopes[i] EXCEPT !.writes = Put(@, key, value)]]
    /\ last' = [op |-> "hset", raised |-> "", key |-> key, value |-> value,
                session |-> _session, outer |-> OuterSession]
    /\ calls' = <<BackendCall("mongodb", "hset")>>
    /\ UNCHANGED <<hdel_vars, scope_vars, sync_vars, backends, data, data_hash_at_load,
                   in_context, override_backends, edited, purged,
                   _session, _snapshot_session, topology, n_sessions>>

\* MongoDBLazyJsonBackend.hgetall(name, hashval=True), lines 235-244, with
\* session=self.__class__._snapshot_session
MongoHgetall ==
    /\ _snapshot_session /= NoSession => _snapshot_session \in DOMAIN sessions
    /\ last' = [op |-> "hgetall", raised |-> "", session |-> _snapshot_session,
                ret |-> hgetall(store, "mongodb", self_hashmap, TRUE)]
    /\ calls' = <<BackendCall("mongodb", "hgetall")>>
    /\ UNCHANGED <<session_vars, hdel_vars, scope_vars, sync_vars, backends, store, data,
                   data_hash_at_load, in_context, override_backends, edited,
                   purged>>

InitSession ==
    /\ backends = <<"mongodb">>
    /\ store = NoEntries
    /\ pc = "idle"
    /\ n_per_batch = 1
    /\ hi = 1
    /\ primary_hashes = EmptyMap
    /\ backend_hashes = EmptyMap
    /\ all_nodes_to_get = {}
    /\ batch = EmptyMap
    /\ bi = 2
    /\ issued = {}
    /\ fetched = <<>>
    /\ to_fetch0 = {}
    /\ synced = <<>>
    /\ store0 = NoEntries
    /\ last_run = "none"
    /\ prev_run = "none"
    /\ pushed = NoPush
    /\ wrote = NoWrite
    /\ topology \in Topologies
    /\ SessionInit
    /\ HdelInit
    /\ ScopeInit
    /\ data = None
    /\ data_hash_at_load = NoneHash
    /\ in_context = FALSE
    /\ override_backends = NoOverride
    /\ edited = FALSE
    /\ purged = None
    /\ calls = <<>>
    /\ last = [op |-> "__init__", raised |-> ""]

NextSession ==
    \/ TransactionEnter
    \/ \E how \in {"normal", "exception"} : TransactionExit(how)
    \/ SnapshotEnter
    \/ \E how \in {"normal", "exception"} : SnapshotExit(how)
    \/ \E value \in ApiTexts : MongoHset("a", value)
    \/ MongoHgetall

SpecSession == InitSession /\ [][NextSession]_vars

(***************************************************************************)
(* FileLazyJsonBackend.hdel called by several threads of the host process. *)
(* PRLOCK, DLOCK and TRLOCK are the locks of the executors module; a lock  *)
(* is held by at most one caller and an acquire waits until it is free.    *)
(***************************************************************************)
\* line 135: with PRLOCK, DLOCK, TRLOCK: enters the locks from left to right
\* a slip of line 135: one caller names the locks in the opposite order
HdelLockOrder_byCaller(p) ==
    IF p = 1 THEN <<"PRLOCK", "DLOCK", "TRLOCK">>
    ELSE <<"TRLOCK", "DLOCK", "PRLOCK">>

HdelLockOrder(p) == <<"PRLOCK", "DLOCK", "TRLOCK">>

Held(p) == {l \in Locks : locks[l] = p}

\* the lock caller p enters next; the with statement leaves them in the
\* opposite order, so the locks held are always the first ones of the order
Awaited(p) == HdelLockOrder(p)[Cardinality(Held(p)) + 1]

\* the lock the with statement leaves next: the one entered last
Leaving(p) == HdelLockOrder(p)[Cardinality(Held(p))]

\* a mutual-exclusion lock can be acquired when no caller holds it
Free(l) == locks[l] = NoCaller

\* what `git rm -f` can do, and str(e) of the exception of lines 142-145 as
\* the phrases of its text
GitOutcomes == {"removed", "untracked tree", "no match"}

GitOutput(outcome) ==
    CASE outcome = "removed" -> <<>>
      [] outcome = "untracked tree" ->
            <<"fatal:", "not a git repository", "(or any of the parent directories)">>
      [] outcome = "no match" ->
            <<"fatal: pathspec", "did not match any files">>

\* a slip of line 147: every failure of git rm is swallowed
Swallowed_all(e) == TRUE

\* line 147: the exception is not raised again
Swallowed(e) == \E i \in DOMAIN e : e[i] = "not a git repository"

HdelKeys == {"a"}

\* hdel(name, keys) is called: lines 131-134
HdelCall(p) ==
    /\ hpc[p] = "idle"
    /\ hpc' = [hpc EXCEPT ![p] = "acquire"]
    /\ hres' = [hres EXCEPT ![p] = NoResult]
    /\ last' = [op |-> "hdel", raised |-> "", caller |-> p]
    /\ calls' = <<>>
    /\ UNCHANGED <<locks, store, scope_vars, session_vars, sync_vars, backends, data,
                   data_hash_at_load, in_context, override_backends, edited,
                   purged>>

\* line 135: the next lock is entered, once it is free
HdelAcquire(p) ==
    /\ hpc[p] = "acquire"
    /\ Free(Awaited(p))
    /\ locks' = [locks EXCEPT ![Awaited(p)] = p]
    /\ hpc' = [hpc EXCEPT ![p] = IF Cardinality(Held(p)) + 1 = Len(HdelLockOrder(p))
                                  THEN "git rm" ELSE "acquire"]
    /\ last' = [op |-> "acquire", raised |-> "", caller |-> p, lock |-> Awaited(p)]
    /\ calls' = <<>>
    /\ UNCHANGED <<hres, store, scope_vars, session_vars, sync_vars, backends, data,
                   data_hash_at_load, in_context, override_backends, edited,
                   purged>>

\* lines 136-148: git rm -f; a failure is raised as RuntimeError, caught, and
\* raised again unless it is swallowed
HdelGitRm(p, outcome) ==
    /\ hpc[p] = "git rm"
    /\ store' = IF outcome = "removed"
                THEN hdel(store, "file", self_hashmap, HdelKeys) ELSE store
    /\ hres' = [hres EXCEPT ![p] =
                  [git |-> outcome, rm |-> "",
                   raised |-> IF outcome /= "removed" /\ ~Swallowed(GitOutput(outcome))
                              THEN "RuntimeError" ELSE ""]]
    /\ hpc' = [hpc EXCEPT ![p] = "release"]
    /\ last' = [op |-> "git rm", raised |-> "", caller |-> p, held |-> Held(p)]
    /\ calls' = <<>>
    /\ UNCHANGED <<locks, scope_vars, session_vars, sync_vars, backends, data,
                   data_hash_at_load, in_context, override_backends, edited,
                   purged>>

\* line 135, the end of the with block, reached normally or by the exception
\* of line 148: the locks are left one by one; after the last one hdel goes
\* on to line 149, or ends with the exception
HdelRelease(p) ==
    /\ hpc[p] = "release"
    /\ locks' = [locks EXCEPT ![Leaving(p)] = NoCaller]
    /\ hpc' = [hpc EXCEPT ![p] = IF Cardinality(Held(p)) > 1 THEN "release"
                                  ELSE IF hres[p].raised /= "" THEN "done"
                                  ELSE "rm"]
    /\ last' = [op |-> "release", raised |-> "", caller |-> p, lock |-> Leaving(p)]
    /\ calls' = <<>>
    /\ UNCHANGED <<hres, store, scope_vars, session_vars, sync_vars, backends, data,
                   data_hash_at_load, in_context, override_backends, edited,
                   purged>>

\* lines 149-154: rm -f with check=True; a failure raises CalledProcessError
HdelRm(p, ok) ==
    /\ hpc[p] = "rm"
    /\ store' = IF ok THEN hdel(store, "file", self_hashmap, HdelKeys) ELSE store
    /\ hres' = [hres EXCEPT ![p] =
                  [@ EXCEPT !.rm = IF ok THEN "removed" ELSE "failed",
                            !.raised = IF ok THEN "" ELSE "CalledProcessError"]]
    /\ hpc' = [hpc EXCEPT ![p] = "done"]
    /\ last' = [op |-> "rm", raised |-> "", caller |-> p, held |-> Held(p)]
    /\ calls' = <<>>
    /\ UNCHANGED <<locks, scope_vars, session_vars, sync_vars, backends, data,
                   data_hash_at_load, in_context, override_backends, edited,
                   purged>>

\* the call has returned or raised; the caller may call hdel again
HdelReturn(p) ==
    /\ hpc[p] = "done"
    /\ hpc' = [hpc EXCEPT ![p] = "idle"]
    /\ last' = [op |-> "return", raised |-> hres[p].raised, caller |-> p]
    /\ calls' = <<>>
    /\ UNCHANGED <<hres, locks, store, scope_vars, session_vars, sync_vars, backends, data,
                   data_hash_at_load, in_context, override_backends, edited,
                   purged>>

\* the files of the keys exist, tracked or not
InitHdel ==
    /\ backends = <<"file">>
    /\ store = [NoEntries EXCEPT !["file"][self_hashmap] =
                    [k \in HdelKeys |-> dumps(EmptyDoc)]]
    /\ pc = "idle"
    /\ n_per_batch = 1
    /\ hi = 1
    /\ primary_hashes = EmptyMap
    /\ backend_hashes = EmptyMap
    /\ all_nodes_to_get = {}
    /\ batch = EmptyMap
    /\ bi = 2
    /\ issued = {}
    /\ fetched = <<>>
    /\ to_fetch0 = {}
    /\ synced = <<>>
    /\ store0 = NoEntries
    /\ last_run = "none"
    /\ prev_run = "none"
    /\ pushed = NoPush
    /\ wrote = NoWrite
    /\ topology = "Single"
    /\ SessionInit
    /\ HdelInit
    /\ ScopeInit
    /\ data = None
    /\ data_hash_at_load = NoneHash
    /\ in_context = FALSE
    /\ override_backends = NoOverride
    /\ edited = FALSE
    /\ purged = None
    /\ calls = <<>>
    /\ last = [op |-> "__init__", raised |-> ""]

NextHdel ==
    \/ \E p \in Callers : HdelCall(p)
    \/ \E p \in Callers : HdelAcquire(p)
    \/ \E p \in Callers, outcome \in GitOutcomes : HdelGitRm(p, outcome)
    \/ \E p \in Callers : HdelRelease(p)
    \/ \E p \in Callers, ok \in BOOLEAN : HdelRm(p, ok)
    \/ \E p \in Callers : HdelReturn(p)

SpecHdel == InitHdel /\ [][NextHdel]_vars

(***************************************************************************)
(* One LazyJson handle used in `with lzj:` blocks that may be nested, with *)
(* backend writes that may raise, and remove_key_for_hashmap followed by a *)
(* new handle for the same node.                                           *)
(***************************************************************************)
\* the loop of lines 614-618 from backend_names[i] on: the backends written
RECURSIVE NonFile(_, _)
NonFile(backend_names, i) ==
    IF i > Len(backend_names) THEN <<>>
    ELSE (IF backend_names[i] = "file" THEN <<>> ELSE <<backend_names[i]>>)
            \o NonFile(backend_names, i + 1)

\* the writes of _dump in the order of lines 606-618: the file cache first
DumpTargets(backend_names) == <<"file">> \o NonFile(backend_names, 1)

\* the first n of these writes done
RECURSIVE WriteFirst(_, _, _, _)
WriteFirst(st, targets, n, data_str) ==
    IF n = 0 THEN st
    ELSE hset(WriteFirst(st, targets, n - 1, data_str), targets[n],
              self_hashmap, self_node, data_str)

DumpCall(targets, i) ==
    IF i = 1 THEN CacheCall("hset") ELSE BackendCall(targets[i], "hset")

\* LazyJson._dump(purge, force) when its write number `failing` raises: line
\* 602 has set the baseline, the writes before it are done, the purge of lines
\* 620-624 is not reached; failing = 0 and a dump that writes nothing are _dump
_dump_raising(st, d, h, ob, purge, force, failing) ==
    LET L == _load(st, d, h, ob)
        data_str == dumps(TheDoc(L.data))
        curr_hash == sha256(data_str)
        backend_names == IF ob /= NoOverride THEN ob ELSE backends
        targets == DumpTargets(backend_names)
        R == _dump(st, d, h, ob, purge, force)
    IN  IF failing > 0 /\ (curr_hash /= L.hash \/ force)
        THEN [store |-> WriteFirst(L.store, targets, failing - 1, data_str),
              data |-> L.data,
              hash |-> curr_hash,
              calls |-> L.calls \o [i \in 1..failing |-> DumpCall(targets, i)],
              raised |-> "write failed"]
        ELSE [store |-> R.store, data |-> R.data, hash |-> R.hash,
              calls |-> R.calls, raised |-> ""]

\* with lzj: entry, LazyJson.__enter__, lines 651-653
WithEnter ==
    /\ depth < MaxDepth
    /\ depth' = depth + 1
    /\ in_context' = TRUE
    /\ edited' = FALSE
    /\ calls' = <<>>
    /\ last' = [op |-> "enter", raised |-> "", nested |-> depth > 0]
    /\ UNCHANGED <<session_vars, hdel_vars, sync_vars, backends, store, data,
                   data_hash_at_load, override_backends, purged>>

\* with lzj: exit, LazyJson.__exit__, lines 655-657: _dump(purge=True), whose
\* write number `failing` raises (0: none does), then self._in_context = False
\* unless _dump raised; the block is left either way
WithExit(failing) ==
    LET L == _load(store, data, data_hash_at_load, override_backends)
        data_str == dumps(TheDoc(L.data))
        backend_names == IF override_backends /= NoOverride
                         THEN override_backends ELSE backends
        R == _dump_raising(store, data, data_hash_at_load, override_backends,
                           TRUE, FALSE, failing)
    IN  /\ depth > 0
        /\ failing <= Len(DumpTargets(backend_names))
        /\ failing > 0 => sha256(data_str) /= L.hash
        /\ depth' = depth - 1
        /\ store' = R.store
        /\ data' = R.data
        /\ data_hash_at_load' = R.hash
        /\ calls' = R.calls
        /\ in_context' = IF R.raised = "" THEN FALSE ELSE in_context
        /\ edited' = IF R.raised = "" THEN FALSE ELSE edited
        /\ purged' = IF R.raised = "" THEN L.data ELSE None
        /\ last' = [op |-> "exit", raised |-> R.raised,
                    was_loaded |-> data /= None,
                    edited |-> edited,
                    baseline |-> L.hash,
                    curr_hash |-> sha256(data_str),
                    data_str |-> data_str,
                    backend_names |-> backend_names]
        /\ UNCHANGED <<session_vars, hdel_vars, sync_vars, backends,
                       override_backends>>

\* the loop of lines 476-478 from CF_TICK_GRAPH_DATA_BACKENDS[i] on, every hdel
\* succeeding
RECURSIVE RemoveFrom(_, _, _, _)
RemoveFrom(st, i, name, node) ==
    IF i > Len(backends) THEN st
    ELSE RemoveFrom(hdel(st, backends[i], name, {node}), i + 1, name, node)

\* remove_key_for_hashmap(name, node), lines 474-478, for the node of the handle
RemoveKeyForHashmap ==
    /\ store' = RemoveFrom(store, 1, self_hashmap, self_node)
    /\ calls' = [i \in DOMAIN backends |-> BackendCall(backends[i], "hdel")]
    /\ last' = [op |-> "remove_key_for_hashmap", raised |-> "",
                cache_held |-> hexists(store, "file", self_hashmap, self_node),
                removed |-> {loads(hget(store, b, self_hashmap, self_node)) :
                               b \in {c \in Range(backends) :
                                        hexists(store, c, self_hashmap, self_node)}}]
    /\ UNCHANGED <<session_vars, hdel_vars, scope_vars, sync_vars, backends, data,
                   data_hash_at_load, in_context, override_backends, edited,
                   purged>>

\* LazyJson(file_name) for the same node, lines 510-533, made outside every
\* `with` block of the handle it replaces
NewLazyJson ==
    /\ depth = 0
    /\ data' = None
    /\ data_hash_at_load' = NoneHash
    /\ in_context' = FALSE
    /\ override_backends' = NoOverride
    /\ store' = IF CF_TICK_GRAPH_DATA_PRIMARY_BACKEND = "file"
                THEN hsetnx(store, "file", self_hashmap, self_node,
                            dumps(EmptyDoc))[1]
                ELSE store
    /\ calls' = IF CF_TICK_GRAPH_DATA_PRIMARY_BACKEND = "file"
                THEN <<BackendCall("file", "hsetnx")>> ELSE <<>>
    /\ edited' = FALSE
    /\ purged' = None
    /\ last' = [op |-> "LazyJson", raised |-> "",
                after_removal |-> last.op = "remove_key_for_hashmap",
                removed |-> IF last.op = "remove_key_for_hashmap"
                            THEN last.removed ELSE {}]
    /\ UNCHANGED <<session_vars, hdel_vars, scope_vars, sync_vars, backends>>

NextHandle ==
    \/ WithEnter
    \/ \E failing \in 0..Cardinality(LAZY_JSON_BACKENDS) : WithExit(failing)
    \/ \E key \in Fields, value \in MemVals : SetItem(key, value)
    \/ Read
    \/ RemoveKeyForHashmap
    \/ NewLazyJson

SpecHandle == Init /\ [][NextHandle]_vars

(***************************************************************************)
(* Properties of the document and of the backend interface                 *)
(***************************************************************************)
\* how often the last operation issued this call
Count(call) == Cardinality({i \in DOMAIN calls : calls[i] = call})

\* C2 Dirty tracking: the exit of an edit scope of a loaded document writes once
\* to the file cache and once to every non-file backend of the active backend
\* set when the hash of the serialised value differs from the baseline, and
\* issues no call at all when the two hashes are equal.
C2_DirtyTracking ==
    (last.op = "exit" /\ last.was_loaded) =>
        LET n == IF last.curr_hash /= last.baseline THEN 1 ELSE 0
            others == Range(last.backend_names) \ {"file"}
        IN  /\ Count(CacheCall("hset")) = n
            /\ \A b \in LAZY_JSON_BACKENDS \ {"file"} :
                 Count(BackendCall(b, "hset")) = IF b \in others THEN n ELSE 0
            /\ Len(calls) = n * (1 + Cardinality(others))

\* an edited document left with a new value: one write to the cache, one to MongoDB
C2_Witness ==
    /\ last.op = "exit"
    /\ last.was_loaded
    /\ last.edited
    /\ last.curr_hash /= last.baseline
    /\ last.backend_names = <<"mongodb", "file">>
    /\ calls = <<CacheCall("hset"), BackendCall("mongodb", "hset")>>

\* an edit scope that changed the value and changed it back: nothing is written
C2_Reverted ==
    /\ last.op = "exit"
    /\ last.was_loaded
    /\ last.edited
    /\ last.curr_hash = last.baseline
    /\ calls = <<>>

\* C3 Purge/reload: the first read after a purge, with the key in the file
\* cache, gives the value the document held when it was purged, reads it from
\* the file cache and issues no call on the primary backend.
C3_PurgeReload ==
    (last.op = "read" /\ last.was_purged /\ last.cache_held) =>
        /\ data = last.purged
        /\ \A i \in DOMAIN calls : calls[i][1] = "file_backend"
        /\ Count(CacheCall("hget")) = 1

\* a document holding a set is purged and read again with MongoDB as the primary
C3_Witness ==
    /\ last.op = "read"
    /\ last.was_purged
    /\ last.cache_held
    /\ backends[1] = "mongodb"
    /\ data = {[f \in {"x"} |-> SetVal(Ints)]}

\* a purged document has its key in the file cache
PurgedIsCached ==
    (data = None /\ purged /= None) => hexists(store, "file", self_hashmap, self_node)

\* C4 setIfAbsent: hsetnx on a missing key stores the value and returns true; on
\* an existing key it returns false and leaves the hashmap as it was; so the
\* second of two calls in a row on the same key returns false and the key keeps
\* the value of the first.
C4_SetIfAbsent ==
    last.op = "hsetnx" =>
        LET b == last.backend
            now == store[b][last.name]
        IN  /\ last.existed => (~last.ret /\ now = last.before)
            /\ ~last.existed =>
                 /\ last.ret
                 /\ last.key \in DOMAIN now
                 /\ Drop(now, {last.key}) = last.before
                 /\ json_loads(hget(store, b, last.name, last.key))
                        = json_loads(last.value)
                 /\ b = "file" => hget(store, b, last.name, last.key) = last.value
            /\ last.again =>
                 /\ ~last.ret
                 /\ json_loads(hget(store, b, last.name, last.key))
                        = json_loads(last.first_value)

\* the second of two calls on one key, with another value, returns false
C4_Witness ==
    /\ last.op = "hsetnx"
    /\ last.again
    /\ last.value /= last.first_value
    /\ ~last.ret
    /\ json_loads(hget(store, last.backend, last.name, last.key))
           = json_loads(last.first_value)

Mutators == {"__setitem__", "__delitem__", "clear"}

\* __setitem__, __delitem__ and clear called outside an edit scope raise and
\* leave the value, the baseline and the backends as they were
MutatorsRefusedOutsideScope ==
    [][(last'.op \in Mutators /\ ~in_context) =>
            /\ last'.raised = "AssertionError"
            /\ data' = data
            /\ data_hash_at_load' = data_hash_at_load
            /\ store' = store
      ]_vars

\* C5 Mutation only in an edit scope: __setitem__, __delitem__ and clear called
\* outside an edit scope raise and leave the value, the baseline and the
\* backends as they were; the value in memory changes only in an edit scope.
C5_MutationOnlyInScope ==
    [][/\ (last'.op \in Mutators /\ ~in_context) =>
            /\ last'.raised = "AssertionError"
            /\ data' = data
            /\ data_hash_at_load' = data_hash_at_load
            /\ store' = store
       /\ (data /= None /\ data' /= None /\ data' /= data) => in_context
      ]_vars

\* a mutator was refused on a loaded document outside an edit scope
C5_Witness ==
    /\ last.op \in Mutators
    /\ last.raised = "AssertionError"
    /\ ~in_context
    /\ data /= None

\* the first backend of the active backend set: where a load goes when the
\* cache does not hold the key
ActivePrimary ==
    IF override_backends /= NoOverride THEN override_backends[1]
    ELSE CF_TICK_GRAPH_DATA_PRIMARY_BACKEND

\* C14 Load path: a read of a loaded document issues no call and changes
\* nothing; of an unloaded one whose key is in the file cache it reads the cache
\* and issues no call on the primary; otherwise the key is created on the
\* primary (or first override backend) with {} when missing, read from there and
\* written to the cache unless that backend is the file backend; the baseline is
\* the hash of the string that was loaded.
C14_LoadPath ==
    [][last'.op = "read" =>
        IF data /= None
        THEN /\ data' = data
             /\ data_hash_at_load' = data_hash_at_load
             /\ store' = store
             /\ calls' = <<>>
        ELSE IF hexists(store, "file", self_hashmap, self_node)
        THEN LET data_str == hget(store, "file", self_hashmap, self_node)
             IN  /\ store' = store
                 /\ \A i \in DOMAIN calls' : calls'[i][1] = "file_backend"
                 /\ data' = {loads(data_str)}
                 /\ data_hash_at_load' = sha256(data_str)
        ELSE LET pb == ActivePrimary
                 data_str == hget(store', pb, self_hashmap, self_node)
                 cache_writes == {i \in DOMAIN calls' : calls'[i] = CacheCall("hset")}
             IN  /\ hexists(store', pb, self_hashmap, self_node)
                 /\ IF hexists(store, pb, self_hashmap, self_node)
                    THEN store'[pb] = store[pb]
                    ELSE loads(data_str) = EmptyDoc
                 /\ data' = {loads(data_str)}
                 /\ data_hash_at_load' = sha256(data_str)
                 /\ IF pb /= "file"
                    THEN /\ hget(store', "file", self_hashmap, self_node) = data_str
                         /\ Cardinality(cache_writes) = 1
                    ELSE cache_writes = {}
      ]_vars

\* a key missing everywhere is created on MongoDB, read and cached
C14_Witness ==
    /\ last.op = "read"
    /\ calls = <<CacheCall("hexists"), BackendCall("mongodb", "hsetnx"),
                 BackendCall("mongodb", "hget"), CacheCall("hset")>>
    /\ data = {EmptyDoc}
    /\ data_hash_at_load = sha256(dumps(EmptyDoc))

\* C15 Forced flush: flush_to_backends writes the serialised value to the file
\* cache and to every non-file backend of the active backend set whatever the
\* baseline; an unloaded handle is unloaded again afterwards, a loaded one keeps
\* its value with the hash of the written string as its baseline.
C15_ForcedFlush ==
    [][last'.op = "flush_to_backends" =>
        LET names == IF override_backends /= NoOverride THEN override_backends
                     ELSE backends
            others == Range(names) \ {"file"}
            doc == IF data /= None THEN TheDoc(data) ELSE TheDoc(purged')
            data_str == dumps(doc)
        IN  /\ hget(store', "file", self_hashmap, self_node) = data_str
            /\ \E i \in DOMAIN calls' : calls'[i] = CacheCall("hset")
            /\ \A b \in others :
                 /\ store'[b][self_hashmap][self_node] = MongoDoc(data_str)
                 /\ Cardinality({i \in DOMAIN calls' :
                                    calls'[i] = BackendCall(b, "hset")}) = 1
            /\ \A b \in LAZY_JSON_BACKENDS \ (others \cup {"file"}) :
                 store'[b] = store[b]
            /\ (data' = None) <=> (data = None)
            /\ data /= None =>
                 /\ data' = data
                 /\ data_hash_at_load' = sha256(data_str)
            /\ data = None => data_hash_at_load' = NoneHash
      ]_vars

\* a loaded document whose hash equals the baseline is flushed: both writes happen
C15_Witness ==
    /\ last.op = "flush_to_backends"
    /\ last.was_loaded
    /\ last.unchanged
    /\ calls = <<CacheCall("hset"), BackendCall("mongodb", "hset")>>
    /\ data /= None

(***************************************************************************)
(* Properties of the transaction and snapshot scopes                       *)
(***************************************************************************)
\* C11 At most one transaction session is open at any time, and an entry of
\* transaction_context made while a transaction scope is open reuses the open
\* session: it starts none, and the handle is the session that was open.
C11_OneTransactionSession ==
    /\ Cardinality(OpenSessions("transaction")) <= 1
    /\ (last.op = "transaction_context" /\ last.open_before /= {}) =>
          /\ OpenSessions("transaction") = last.open_before
          /\ last.handle \in last.open_before

\* C11: transaction_context is entered while a transaction scope is open
C11_Witness ==
    /\ last.op = "transaction_context"
    /\ last.open_before /= {}
    /\ Len(scopes) >= 2

\* C20 While a transaction scope is open the handle is the session of the
\* outermost one, and every hset issued inside it runs with that session.
C20_HandleBoundToOuter ==
    /\ OuterSession /= NoSession => _session = OuterSession
    /\ (last.op = "hset" /\ last.outer /= NoSession) => last.session = last.outer

\* C20: a write is issued inside a transaction scope after a nested transaction
\* scope was entered and left
C20_Witness ==
    /\ last.op = "hset"
    /\ last.outer /= NoSession
    /\ Len(scopes) = 1
    /\ scopes[1].nested

\* C12 Transaction scope release: when the scope that started the transaction
\* exits normally every write made inside it is stored; when it exits by an
\* exception the hashmap is as it was at entry; after either exit the handle is
\* unset; the handle is never a session that has ended, so an entry made with
\* no transaction open gets a session of its own with nothing pending.
C12_TransactionRelease ==
    /\ (last.op = "transaction_exit" /\ last.session /= NoSession) =>
          /\ _session = NoSession
          /\ last.session \notin DOMAIN sessions
          /\ last.how = "normal" =>
                \A k \in DOMAIN last.writes :
                    /\ k \in DOMAIN store["mongodb"][self_hashmap]
                    /\ store["mongodb"][self_hashmap][k] = MongoDoc(last.writes[k])
          /\ last.how = "exception" =>
                store["mongodb"][self_hashmap] = last.entry
    /\ _session /= NoSession => _session \in DOMAIN sessions
    /\ (last.op = "transaction_context" /\ last.open_before = {}) =>
          /\ last.handle \in DOMAIN sessions
          /\ sessions[last.handle].pending = EmptyMap

\* C12: a transaction scope in which a write was made exits by an exception
C12_Witness ==
    /\ last.op = "transaction_exit"
    /\ last.session /= NoSession
    /\ last.how = "exception"
    /\ last.writes /= EmptyMap

\* the release of a transaction scope inside which no transaction scope was
\* entered: commit, abort and the clearing of the handle are as C12 states them
ReleaseWithoutNesting ==
    (last.op = "transaction_exit" /\ last.session /= NoSession /\ ~last.nested) =>
        /\ _session = NoSession
        /\ last.how = "normal" =>
              \A k \in DOMAIN last.writes :
                  /\ k \in DOMAIN store["mongodb"][self_hashmap]
                  /\ store["mongodb"][self_hashmap][k] = MongoDoc(last.writes[k])
        /\ last.how = "exception" =>
              store["mongodb"][self_hashmap] = last.entry

\* C18 Snapshot scope: on a standalone topology an entry of snapshot_context
\* starts no session and leaves the handle unset; on another topology an entry
\* with no snapshot session open starts one and an entry with one open reuses
\* it; after every exit the handle is unset; at most one snapshot session is
\* open at any time.
C18_SnapshotScope ==
    /\ Cardinality(OpenSessions("snapshot")) <= 1
    /\ topology = "Single" =>
          /\ _snapshot_session = NoSession
          /\ OpenSessions("snapshot") = {}
    /\ (last.op = "snapshot_context" /\ topology /= "Single") =>
          IF last.open_before = {}
          THEN /\ last.handle \in OpenSessions("snapshot")
               /\ Cardinality(OpenSessions("snapshot")) = 1
          ELSE /\ OpenSessions("snapshot") = last.open_before
               /\ last.handle \in last.open_before
    /\ last.op = "snapshot_exit" => _snapshot_session = NoSession

\* C18: snapshot_context is entered on a replica set while a snapshot scope is
\* open
C18_Witness ==
    /\ last.op = "snapshot_context"
    /\ topology /= "Single"
    /\ last.open_before /= {}

\* the part of C18 about a standalone topology and about the exits
SnapshotStandaloneAndExit ==
    /\ topology = "Single" =>
          /\ _snapshot_session = NoSession
          /\ OpenSessions("snapshot") = {}
    /\ last.op = "snapshot_exit" => _snapshot_session = NoSession

(***************************************************************************)
(* Properties of FileLazyJsonBackend.hdel                                  *)
(***************************************************************************)
\* callers that wait for each other: each waits for a lock one of them holds
Deadlocked ==
    \E D \in SUBSET Callers \ {{}} :
        \A p \in D : /\ hpc[p] = "acquire"
                     /\ locks[Awaited(p)] \in D

\* C16 File-backend delete locking: the locks a caller of hdel holds are always
\* the first ones of PRLOCK, DLOCK, TRLOCK; git rm runs with all three held;
\* a caller outside the with block, also one whose git error was raised again,
\* holds none; and concurrent callers never wait for each other in a cycle.
C16_HdelLocking ==
    /\ \A p \in Callers :
          /\ Held(p) \in {{}, {"PRLOCK"}, {"PRLOCK", "DLOCK"},
                          {"PRLOCK", "DLOCK", "TRLOCK"}}
          /\ hpc[p] = "git rm" => Held(p) = Locks
          /\ hpc[p] \in {"idle", "rm", "done"} => Held(p) = {}
    /\ last.op = "git rm" => last.held = Locks
    /\ ~Deadlocked

\* C16: one caller has ended with its git error raised again while the other,
\* which waited for the locks, runs git rm with all three held
C16_Witness ==
    \E p, q \in Callers :
        /\ hpc[p] = "done"
        /\ hres[p].raised = "RuntimeError"
        /\ hpc[q] = "git rm"
        /\ Held(q) = Locks

\* C17 as stated: of the failures of git rm only "not a git repository" is
\* swallowed and every other one is raised again; rm -f is run in every call
\* of hdel whatever git rm did, and its failure is raised.
C17_RmOnEveryCall ==
    \A p \in Callers : hpc[p] = "done" =>
        /\ hres[p].git = "no match" => hres[p].raised /= ""
        /\ hres[p].rm /= ""
        /\ hres[p].rm = "failed" => hres[p].raised = "CalledProcessError"
        /\ (hres[p].git /= "no match" /\ hres[p].rm = "removed") =>
              hres[p].raised = ""

\* C17 File-backend delete error handling: a failure of git rm other than "not
\* a git repository" is raised again and ends hdel before rm -f is run; after a
\* git rm that succeeded or whose failure was swallowed rm -f is run, its
\* failure is raised, and hdel returns normally when it succeeds.
C17_HdelErrors ==
    \A p \in Callers : hpc[p] = "done" =>
        IF hres[p].git = "no match"
        THEN /\ hres[p].raised = "RuntimeError"
             /\ hres[p].rm = ""
        ELSE /\ hres[p].git \in {"removed", "untracked tree"}
             /\ hres[p].rm \in {"removed", "failed"}
             /\ hres[p].raised =
                  (IF hres[p].rm = "failed" THEN "CalledProcessError" ELSE "")
             /\ hres[p].rm = "removed" =>
                  HdelKeys \cap hkeys(store, "file", self_hashmap) = {}

\* C17: a call whose git rm failed with another error has ended
C17_Witness ==
    \E p \in Callers :
        /\ hpc[p] = "done"
        /\ hres[p].git = "no match"
        /\ HdelKeys \subseteq hkeys(store, "file", self_hashmap)

(***************************************************************************)
(* Properties of nested edit scopes, failing flushes and removal           *)
(***************************************************************************)
\* C21 Leaving an edit scope always ends it: once __exit__ has run for the
\* outermost `with` block, whether its flush raised or not, the handle is not
\* in edit scope, and __setitem__ called outside every `with` block is refused.
C21_ExitEndsScope ==
    /\ (last.op = "exit" /\ depth = 0) => ~in_context
    /\ (last.op = "__setitem__" /\ depth = 0) => last.raised = "AssertionError"

\* C21: the flush of the outermost exit has raised
C21_Witness ==
    /\ last.op = "exit"
    /\ last.raised = "write failed"
    /\ depth = 0

\* an exit whose flush does not raise ends the edit scope
ExitWithoutFailureEndsScope ==
    (last.op = "exit" /\ last.raised = "") => ~in_context

\* C22 A failed flush is retried: after a flush in which a write raised the
\* baseline hash is the one from before the flush, and an exit that follows it
\* with the value unchanged issues the writes again.
C22_FailedFlushRetried ==
    [][/\ (last'.op = "exit" /\ last'.raised /= "") =>
             data_hash_at_load' = last'.baseline
       /\ (last.op = "exit" /\ last.raised /= "" /\ last'.op = "exit") =>
             \E i \in DOMAIN calls' : calls'[i] = CacheCall("hset")
      ]_vars

\* C22: a write of the flush of a changed value has raised
C22_Witness ==
    /\ last.op = "exit"
    /\ last.raised = "write failed"
    /\ last.curr_hash /= last.baseline
    /\ data /= None

\* C23 Nested edit scopes: inside a `with` block of the handle the handle is in
\* edit scope, also after an inner block has been left; __setitem__ called
\* there is accepted; and the outermost exit writes a changed value to the
\* cache and to every backend but "file".
C23_NestedScopes ==
    /\ depth > 0 => in_context
    /\ (last.op = "__setitem__" /\ depth > 0) => last.raised = ""
    /\ (last.op = "exit" /\ depth = 0 /\ last.raised = ""
           /\ last.curr_hash /= last.baseline) =>
          /\ hget(store, "file", self_hashmap, self_node) = last.data_str
          /\ \A b \in Range(last.backend_names) \ {"file"} :
                store[b][self_hashmap][self_node] = MongoDoc(last.data_str)

\* C23: an inner block has been left without a failure, the outer one is open
C23_Witness ==
    /\ last.op = "exit"
    /\ last.raised = ""
    /\ depth = 1

\* C24 Removal reaches the cache: after remove_key_for_hashmap the key is on no
\* configured backend and not in the file cache, and a handle made next for
\* the node loads an empty document, not a value that was removed.
C24_RemovalReachesCache ==
    [][/\ last'.op = "remove_key_for_hashmap" =>
             \A b \in Range(backends) \cup {"file"} :
                 ~hexists(store', b, self_hashmap, self_node)
       /\ (last.op = "LazyJson" /\ last.after_removal /\ last'.op = "read") =>
             data' = {EmptyDoc}
      ]_vars

\* C24: the file backend is not configured and the cache holds the key
C24_Witness ==
    /\ last.op = "remove_key_for_hashmap"
    /\ "file" \notin Range(backends)
    /\ last.cache_held

\* the backends that are configured no longer hold the key after the removal
RemovedFromConfigured ==
    last.op = "remove_key_for_hashmap" =>
        \A b \in Range(backends) : ~hexists(store, b, self_hashmap, self_node)

\* with the file backend among the configured ones the removal reaches the
\* cache and a handle made next loads an empty document
RemovalWithFileConfigured ==
    []["file" \in Range(backends) =>
        /\ last'.op = "remove_key_for_hashmap" =>
              \A b \in Range(backends) \cup {"file"} :
                  ~hexists(store', b, self_hashmap, self_node)
        /\ (last.op = "LazyJson" /\ last.after_removal /\ last'.op = "read") =>
              data' = {EmptyDoc}
      ]_vars
====
